---- MODULE Spec2Model ----
(***************************************************************************)
(* Engine-analysis pipeline of chessapp (src/unnamed/part_001): the line   *)
(* dispatcher, the memoized UCI handshake, the position analyzer, the      *)
(* analysis queue and the result cache.                                    *)
(*                                                                         *)
(* JavaScript runs one job at a time.  A macrotask (a public call, a       *)
(* worker message, a timer) runs to completion, then every promise         *)
(* continuation it made runnable runs before the next macrotask.  The      *)
(* model keeps that: each coroutine has a pc, a continuation is one step,  *)
(* and macrotask actions are enabled only when nothing is runnable (Idle). *)
(*                                                                         *)
(* Text is modelled as sequences of tokens (a line "bestmove e2e4" is      *)
(* <<"bestmove","e2e4">>), a FEN as the pair of its first two fields.      *)
(* JS arrays are 0-based: At(arr, i) reads index i of a sequence.          *)
(* Scale values (evaluationValues) are kept in hundredths, so that         *)
(* cp / 100 stays an integer: 1.2 is 120, the bound 9 is 900.              *)
(***************************************************************************)
EXTENDS Integers, Sequences, FiniteSets, TLC

\* ---------------------------------------------------------------- bounds
MaxPositions == 7  \* positions submitted for analysis in total, over all batches
MaxInfo == 1       \* info lines the engine emits per search, at most
MaxChunk == 2      \* lines the worker delivers in one message, at most
MaxCallers == 2     \* direct calls of engine_initialise besides the queue's
CpStep == 120
MaxCpSteps == 8
MaxMate == 2
MaxLoads == 3
MaxWaiters == 3
MaxProbes == 2
MaxAnalyses == 1
MaxMessages == 2
MaxRankLen == 2

\* ------------------------------------------------------ program constants
EVAL_SCALE_MIN == -9
EVAL_SCALE_MAX == 9
ENGINE_SEARCH_DEPTH == "16"

\* -------------------------------------------------------------- the data
\* What chess.js makes of a PGN: the start position, then one FEN per move.
StartFen == <<"start", "w">>
GameA == <<StartFen, <<"a1", "b">>, <<"a2", "w">>>>
GameB == <<StartFen, <<"b1", "b">>>>
Games == {GameA, GameB}

Max(a, b) == IF a >= b THEN a ELSE b
Min(a, b) == IF a <= b THEN a ELSE b
MaxPly == Max(Len(GameA), Len(GameB))
Plies == 0 .. MaxPly - 1

\* JS undefined / null / a hole of an array.
Undefined == [undefined |-> TRUE]
\* arr[i] of a 0-based JS array kept as a sequence.
At(arr, i) == IF i + 1 \in DOMAIN arr THEN arr[i + 1] ELSE Undefined
\* new Array(n): n holes.  Kept as a function on Plies, holes Undefined.
EmptyResults == [p \in Plies |-> Undefined]

\* Lines the engine can emit.
UciokLine == <<"uciok">>
ReadyokLine == <<"readyok">>
BannerLine == <<"Stockfish">>
InfoLines == { <<"info", "depth", "16", "score", "cp", "120", "pv", "e2e4", "e7e5">> }
BestmoveLines == { <<"bestmove", "e2e4", "ponder", "e7e5">> }

\* line.startsWith(word + ' '): the first token is word and more text follows.
StartsWithWord(line, word) == Len(line) >= 2 /\ line[1] = word
\* line.startsWith(word)
StartsWith(line, word) == Len(line) >= 1 /\ line[1] = word

\* ------------------------------------------------------------ fen2matrix
\* A string is kept as the sequence of its characters here.
DigitValue == ("1" :> 1) @@ ("2" :> 2) @@ ("3" :> 3) @@ ("4" :> 4)
                @@ ("5" :> 5) @@ ("6" :> 6) @@ ("7" :> 7) @@ ("8" :> 8)

RECURSIVE Split(_, _)
\* str.split(sep) for a one-character separator.
Split(str, sep) ==
  IF \A k \in DOMAIN str : str[k] # sep
    THEN <<str>>
    ELSE LET k == CHOOSE j \in DOMAIN str :
                    str[j] = sep /\ \A m \in 1 .. j - 1 : str[m] # sep
         IN <<SubSeq(str, 1, k - 1)>> \o Split(SubSeq(str, k + 1, Len(str)), sep)

\* A rank whose digits all stand for one empty square.
SquaresOne(ch) == <<IF ch \in DOMAIN DigitValue THEN "" ELSE ch>>

\* Lines 70-76: what one character of a rank pushes on the row.
Squares(ch) ==
  IF ch \in DOMAIN DigitValue THEN [j \in 1 .. DigitValue[ch] |-> ""] ELSE <<ch>>

RECURSIVE RowOf(_)
\* Lines 68-77: the row built from a rank, character by character.
RowOf(fenRow) ==
  IF fenRow = <<>> THEN <<>> ELSE Squares(Head(fenRow)) \o RowOf(Tail(fenRow))

\* Lines 61-81, for fen = <<board field, side to move>>: fen.split(' ')[0]
\* is fen[1].  Row r of the matrix (0-based in the code) is matrix[r + 1].
fen2matrix(fen) ==
  LET boardPart == fen[1]
      rows == Split(boardPart, "/")
  IN [r \in 1 .. 8 |-> RowOf(rows[r])]

\* ------------------------------------------------- parse_engine_info_line
IntTokens == ("120" :> 120) @@ ("-2" :> -2) @@ ("0" :> 0) @@ ("16" :> 16)
               @@ ("-2000" :> -2000) @@ ("3" :> 3)
\* !Number.isNaN(parseInt(token, 10))
IsNumeric(token) == token \in DOMAIN IntTokens
\* parseInt(token, 10), for a token that parses
ParseInt(token) == IntTokens[token]
\* arr[i] is there (and so truthy: no token and no FEN is empty)
Has(tokens, i) == i + 1 \in DOMAIN tokens
\* tokens.indexOf(word), 0-based, -1 when absent
IndexOf(tokens, word) ==
  IF \E k \in DOMAIN tokens : tokens[k] = word
    THEN (CHOOSE k \in DOMAIN tokens :
            tokens[k] = word /\ \A j \in 1 .. k - 1 : tokens[j] # word) - 1
    ELSE -1

\* The empty line '' is <<>>; a null score is Undefined.
parse_engine_info_line(line) ==
  IF line = <<>>
    THEN [score |-> Undefined, pv |-> <<>>, rawInfo |-> <<>>]
    ELSE
      LET scoreIdx == IndexOf(line, "score")
          score == IF /\ scoreIdx # -1
                      /\ Has(line, scoreIdx + 1)
                      /\ Has(line, scoreIdx + 2)
                      /\ IsNumeric(At(line, scoreIdx + 2))
                     THEN [type |-> At(line, scoreIdx + 1),
                           value |-> ParseInt(At(line, scoreIdx + 2))]
                     ELSE Undefined
          pvIdx == IndexOf(line, "pv")
          pv == IF pvIdx # -1 THEN SubSeq(line, pvIdx + 2, Len(line)) ELSE <<>>
      IN [score |-> score, pv |-> pv, rawInfo |-> line]

\* ---------------------------------------------- normalize_score_for_white
\* A number n (in hundredths) is returned as [num |-> n], null as Undefined.
Num(n) == [num |-> n]
\* A scale without limits.
ClampNone(v) == v

\* Lines 665, 671: Math.max(EVAL_SCALE_MIN, Math.min(EVAL_SCALE_MAX, v)).
Clamp(v) == Max(EVAL_SCALE_MIN * 100, Min(EVAL_SCALE_MAX * 100, v))

\* A score taken as White's whoever is to move.
PerspectiveWhite(activeColor) == 1

\* Line 660: +1 when White is to move, -1 otherwise.
Perspective(activeColor) == IF activeColor = "w" THEN 1 ELSE -1

normalize_score_for_white(score, fen) ==
  IF score = Undefined \/ fen = Undefined
    THEN Undefined
    ELSE
      LET activeColor == IF Len(fen) >= 2 THEN fen[2] ELSE "w"
          perspective == Perspective(activeColor)
      IN IF score.type = "cp"
           THEN Num(Clamp(score.value * perspective))
           ELSE IF score.type = "mate"
             THEN IF score.value = 0
                    THEN Num(0)
                    ELSE LET mateSign == IF score.value > 0 THEN 1 ELSE -1
                         IN Num(Clamp(mateSign * perspective * EVAL_SCALE_MAX * 100))
             ELSE Undefined

\* ------------------------------------------------------------- the state
VARIABLES
  positions,                \* let positions: the loaded game's FENs
  evaluationValues,         \* let evaluationValues: one number per ply
  analysisResults,          \* let analysisResults: the Result Store
  chessappAnalysisResults,  \* window.chessappAnalysisResults: the snapshot
  workerAvailable,          \* whether new Worker(...) can succeed here
  engineWorker,             \* let engineWorker: TRUE when it holds a worker
  engineInitPromise,        \* "null", "pending", or settled "true" / "false"
  initPc,                   \* where the handshake coroutine stands
  engineListeners,          \* let engineListeners: listener ids, in order
  engineWaiters,            \* let engineWaiters: waiters, in order
  waiterTimers,             \* pending setTimeout of engine_wait_for
  analyses,                 \* closures of the pending engine_analyse_fen calls
  searchTimers,             \* pending setTimeout of engine_analyse_fen
  engineAnalysisPending,    \* let engineAnalysisPending: <<>> is null
  engineAnalysisRunning,    \* let engineAnalysisRunning
  loops,                    \* the engine_process_queue coroutines alive
  inbox,                    \* lines of the message being dispatched
  todo,                     \* engineListeners.slice() still to call
  posted,                   \* commands posted to the worker, in order
  engineCursor,             \* how many posted commands the engine answered
  engineInfos,              \* info lines emitted for the current search
  \* history (read by the properties only)
  postedBy,                 \* who posted each command: [batch, idx]
  submits,                  \* public submissions made so far
  pendingId,                \* the submission number of the pending batch
  superseded,               \* submissions replaced before they started
  batches,                  \* submission number -> the list submitted
  initCalls,                \* direct engine_initialise calls made
  initAwaiting,             \* direct callers awaiting the outcome
  initSeen,                 \* outcomes the callers have observed
  delivered,                \* messages handed to engine_handle_message directly
  readyokSeen,              \* a readyok line arrived after isready was sent
  cacheArg,                 \* argument of update_engine_result_cache made
  lastMatrix,               \* let lastMatrix: the matrix drawn last, or null
  drawArg                   \* argument of the draw_board call made last
                            \* by the last step (Undefined: no call)

storeVars == <<positions, evaluationValues, analysisResults, chessappAnalysisResults>>
initVars == <<engineWorker, engineInitPromise, initPc, engineWaiters, waiterTimers>>
analyserVars == <<engineListeners, analyses, searchTimers>>
queueVars == <<engineAnalysisPending, engineAnalysisRunning, loops>>
dispatchVars == <<inbox, todo>>
engineVars == <<engineCursor, engineInfos>>
postVars == <<posted, postedBy>>
batchVars == <<submits, pendingId, superseded, batches>>
callVars == <<initCalls, initAwaiting, initSeen, delivered>>
boardVars == <<lastMatrix, drawArg>>
vars == <<storeVars, workerAvailable, initVars, analyserVars, queueVars,
          dispatchVars, engineVars, postVars, batchVars, callVars,
          readyokSeen, cacheArg, boardVars>>

EmptyMap == [x \in {} |-> Undefined]
\* A splice that removes nothing.
RemoveNothing(seq, x) == seq
\* Lines 602-605: the list without x.
Remove(seq, x) == SelectSeq(seq, LAMBDA e : e # x)
Without(f, x) == [y \in DOMAIN f \ {x} |-> f[y]]
HandshakeTag == [batch |-> 0, idx |-> 0]

Init ==
  /\ positions = <<>>
  /\ evaluationValues = <<>>
  /\ analysisResults = EmptyResults
  /\ chessappAnalysisResults = EmptyResults
  /\ workerAvailable \in BOOLEAN
  /\ engineWorker = FALSE
  /\ engineInitPromise = "null"
  /\ initPc = "idle"
  /\ engineListeners = <<>>
  /\ engineWaiters = <<>>
  /\ waiterTimers = {}
  /\ analyses = EmptyMap
  /\ searchTimers = {}
  /\ engineAnalysisPending = <<>>
  /\ engineAnalysisRunning = FALSE
  /\ loops = EmptyMap
  /\ inbox = <<>>
  /\ todo = <<>>
  /\ posted = <<>>
  /\ engineCursor = 0
  /\ engineInfos = 0
  /\ postedBy = <<>>
  /\ submits = 0
  /\ pendingId = 0
  /\ superseded = {}
  /\ batches = EmptyMap
  /\ initCalls = 0
  /\ initAwaiting = 0
  /\ initSeen = {}
  /\ delivered = 0
  /\ readyokSeen = FALSE
  /\ cacheArg = Undefined
  /\ lastMatrix = Undefined
  /\ drawArg = Undefined

\* A promise continuation is ready to run.
Settled == engineInitPromise \in {"true", "false"}
Runnable ==
  \/ initPc \in {"after_uciok", "after_readyok", "threw"}
  \/ \E L \in DOMAIN loops :
       \/ loops[L].pc \in {"resolved", "rejected", "publish"}
       \/ loops[L].pc = "await_init" /\ Settled
  \/ initAwaiting > 0 /\ Settled
\* The event loop is between macrotasks.
Idle == inbox = <<>> /\ ~Runnable

\* --------------------------------------------- update_engine_result_cache
ScoreOf(result) == IF "score" \in DOMAIN result THEN result.score ELSE Undefined

\* A cache that takes a result without a number for an even position.
EvaluationReset(values, ply, normalized) ==
  [values EXCEPT ![ply + 1] = IF normalized # Undefined THEN normalized.num ELSE 0]

\* Lines 685-686: a number is written at the ply, null is not.
EvaluationAfter(values, ply, normalized) ==
  IF normalized # Undefined
    THEN [values EXCEPT ![ply + 1] = normalized.num]
    ELSE values

\* A cache whose guard forgets to compare the position with the result's.
CacheAcceptsAnyFen(result) ==
  /\ Has(positions, result.ply)
  /\ result.ply < Len(evaluationValues)

\* Lines 677-679: the guards that let a write through.
CacheAccepts(result) ==
  /\ Has(positions, result.ply)
  /\ At(positions, result.ply) = result.fen
  /\ result.ply < Len(evaluationValues)

update_engine_result_cache(result) ==
  /\ cacheArg' = result
  /\ UNCHANGED positions
  /\ IF ~CacheAccepts(result)
       THEN UNCHANGED <<evaluationValues, analysisResults, chessappAnalysisResults>>
       ELSE
         LET stored == [analysisResults EXCEPT ![result.ply] = result]
             normalized == normalize_score_for_white(ScoreOf(result), result.fen)
         IN /\ analysisResults' = stored
            /\ chessappAnalysisResults' = stored
            /\ evaluationValues' =
                 EvaluationAfter(evaluationValues, result.ply, normalized)

\* ------------------------------------------------ publish_analysis_results
publish_analysis_results(results) ==
  /\ analysisResults' = results
  /\ chessappAnalysisResults' = results

\* ------------------------------------------- engine_init_worker, engine_send
\* Lines 551-570: the worker is kept once made; without Worker, or when its
\* constructor throws, engineWorker stays null.
engine_init_worker == engineWorker \/ workerAvailable
\* An engine_send that reports success without a worker.
EngineSendAlways(worker) == TRUE

\* Lines 572-576: what engine_send returns for a worker handle.
engine_send(worker) == worker

\* -------------------------------------------------------- engine_wait_for
\* Line 585: the handle setTimeout returns, unlike every pending one.
NewTimer == CHOOSE t \in 1 .. Cardinality(waiterTimers) + 1 :
              t \notin waiterTimers /\ \A u \in 1 .. t - 1 : u \in waiterTimers

\* Lines 578-598: registers the waiter and its timer.  awaiter is who awaits
\* the promise returned: "init" for the handshake, "caller" for anyone else.
engine_wait_for(predicate, awaiter) ==
  /\ engineWaiters' = Append(engineWaiters, [predicate |-> predicate,
                                             timer |-> NewTimer,
                                             awaiter |-> awaiter])
  /\ waiterTimers' = waiterTimers \cup {NewTimer}

\* ------------------------------------------------------ engine_initialise
\* A handshake that is run again by every call.
InitNeverMemoized == FALSE

\* Line 609: a call returns the memoized promise when there is one.
InitMemoized == engineInitPromise # "null"

\* Lines 608-618: the call itself, up to its first await.
engine_initialise ==
  IF InitMemoized
    THEN UNCHANGED <<initVars, postVars>>
    ELSE
      LET worker == engine_init_worker
      IN /\ engineWorker' = worker
         /\ engineInitPromise' = "pending"
         /\ IF ~worker \/ ~engine_send(worker)
              THEN /\ initPc' = "threw"
                   /\ UNCHANGED <<engineWaiters, waiterTimers, postVars>>
              ELSE /\ posted' = Append(posted, <<"uci">>)
                   /\ postedBy' = Append(postedBy, HandshakeTag)
                   /\ engine_wait_for("uciok", "init")
                   /\ initPc' = "wait_uciok"

\* Lines 619-626: after uciok, up to the second await.
InitAfterUciok ==
  /\ inbox = <<>>
  /\ initPc = "after_uciok"
  /\ IF ~engine_send(engineWorker)
       THEN /\ initPc' = "threw"
            /\ UNCHANGED <<engineWaiters, waiterTimers, postVars>>
       ELSE /\ posted' = posted \o <<<<"ucinewgame">>, <<"isready">>>>
            /\ postedBy' = postedBy \o <<HandshakeTag, HandshakeTag>>
            /\ engine_wait_for("readyok", "init")
            /\ initPc' = "wait_readyok"
  /\ cacheArg' = Undefined
  /\ UNCHANGED boardVars
  /\ UNCHANGED <<storeVars, workerAvailable, engineWorker, engineInitPromise,
                 analyserVars, queueVars, dispatchVars, engineVars, batchVars,
                 callVars, readyokSeen>>

\* Lines 627-628: after readyok the promise fulfils with true.
InitAfterReadyok ==
  /\ inbox = <<>>
  /\ initPc = "after_readyok"
  /\ initPc' = "done"
  /\ engineInitPromise' = "true"
  /\ cacheArg' = Undefined
  /\ UNCHANGED boardVars
  /\ UNCHANGED <<storeVars, workerAvailable, engineWorker, engineWaiters,
                 waiterTimers, analyserVars, queueVars, dispatchVars,
                 engineVars, postVars, batchVars, callVars, readyokSeen>>

\* A catch handler that forgets the attempt instead of settling it.
InitCatchForgets == "null"

\* Line 631: what the catch handler makes of a failed attempt.
InitCatchOutcome == "false"

\* Lines 629-632: a throw or a rejected await fulfils the promise with false.
InitCatch ==
  /\ inbox = <<>>
  /\ initPc = "threw"
  /\ initPc' = "done"
  /\ engineInitPromise' = InitCatchOutcome
  /\ cacheArg' = Undefined
  /\ UNCHANGED boardVars
  /\ UNCHANGED <<storeVars, workerAvailable, engineWorker, engineWaiters,
                 waiterTimers, analyserVars, queueVars, dispatchVars,
                 engineVars, postVars, batchVars, callVars, readyokSeen>>

\* A direct call of engine_initialise() (a caller other than the queue).
InitialiseCall ==
  /\ Idle
  /\ initCalls < MaxCallers
  /\ engine_initialise
  /\ initCalls' = initCalls + 1
  /\ initAwaiting' = initAwaiting + 1
  /\ cacheArg' = Undefined
  /\ UNCHANGED boardVars
  /\ UNCHANGED <<storeVars, workerAvailable, analyserVars, queueVars,
                 dispatchVars, engineVars, batchVars, initSeen, delivered,
                 readyokSeen>>

\* A direct caller's await resumes with the promise's value.
CallerObserves ==
  /\ inbox = <<>>
  /\ initAwaiting > 0
  /\ Settled
  /\ initAwaiting' = initAwaiting - 1
  /\ initSeen' = initSeen \cup {engineInitPromise}
  /\ cacheArg' = Undefined
  /\ UNCHANGED boardVars
  /\ UNCHANGED <<storeVars, workerAvailable, initVars, analyserVars, queueVars,
                 dispatchVars, engineVars, postVars, batchVars, initCalls, delivered,
                 readyokSeen>>

\* ---------------------------------------------------- engine_process_queue
\* engine_run_analysis_for_list(fenList) at its first await.  overtaken is
\* history: the element that was in flight when a newer list was first
\* submitted, -1 while there was none.
NewLoop(fenList) ==
  [fenList |-> fenList, i |-> 0, results |-> EmptyResults,
   pc |-> "await_init", val |-> Undefined, overtaken |-> -1]

\* The coroutines, with the element in flight noted at a submission.
Overtaken(running) ==
  [L \in DOMAIN running |->
     IF running[L].pc = "await_fen" /\ running[L].overtaken = -1
       THEN [running[L] EXCEPT !.overtaken = running[L].i]
       ELSE running[L]]

\* A queue that never sees the active loop.
QueueNeverBusy(running) == FALSE

\* Line 769: a loop is already active.
QueueBusy(running) == running

\* Lines 768-775, with engineAnalysisRunning = running, engineAnalysisPending
\* = pend (submission pid) and the coroutines others: either returns, or takes
\* the pending list and runs engine_run_analysis_for_list to its first await.
engine_process_queue(running, pend, pid, others) ==
  IF QueueBusy(running) \/ pend = <<>>
    THEN /\ engineAnalysisRunning' = running
         /\ engineAnalysisPending' = pend
         /\ pendingId' = IF pend = <<>> THEN 0 ELSE pid
         /\ loops' = others
         /\ UNCHANGED <<initVars, postVars>>
    ELSE /\ engineAnalysisPending' = <<>>
         /\ pendingId' = 0
         /\ engineAnalysisRunning' = TRUE
         /\ loops' = (pid :> NewLoop(pend)) @@ others
         /\ engine_initialise

\* A finally block that leaves a pending list to the next submission.
FinallyNeverRestarts(pend) == FALSE

\* Line 780: the finally block calls engine_process_queue again.
FinallyRestarts(pend) == pend # <<>>

\* Lines 778-783: the coroutine's finally block, others being the coroutines
\* that remain.
Finally(others) ==
  IF FinallyRestarts(engineAnalysisPending)
    THEN engine_process_queue(FALSE, engineAnalysisPending, pendingId, others)
    ELSE /\ engineAnalysisRunning' = FALSE
         /\ loops' = others
         /\ UNCHANGED <<engineAnalysisPending, pendingId, initVars, postVars>>

\* A slot that keeps the list it holds when another one is submitted.
NextPendingKeepsOld(fenList, id) ==
  IF engineAnalysisPending # <<>>
    THEN [list |-> engineAnalysisPending, id |-> pendingId]
    ELSE [list |-> fenList, id |-> id]

\* Line 788: the slot after a submission holds the new list (submission id).
NextPending(fenList, id) == [list |-> fenList, id |-> id]

\* Lines 786-790.  An empty list is ignored (no game has fewer than one FEN).
\* superseded records the submission the slot held, if any.
engine_schedule_analysis(fenList) ==
  /\ submits' = submits + 1
  /\ batches' = (submits + 1 :> fenList) @@ batches
  /\ superseded' =
       superseded \cup (IF engineAnalysisPending # <<>> THEN {pendingId} ELSE {})
  /\ LET slot == NextPending(fenList, submits + 1)
     IN engine_process_queue(engineAnalysisRunning, slot.list, slot.id,
                             Overtaken(loops))

RECURSIVE PositionsSubmitted(_)
\* The number of positions in the first k submissions.
PositionsSubmitted(k) ==
  IF k = 0 THEN 0 ELSE Len(batches[k]) + PositionsSubmitted(k - 1)
\* The bound leaves room for another batch of n positions.
Room(n) == PositionsSubmitted(submits) + n <= MaxPositions

\* Lines 792-795, for current = the positions just computed: load_pgn leaves
\* at least the start position in positions, so line 793 does not return.
trigger_engine_analysis(current) == engine_schedule_analysis(current)

\* --------------------------------------------------------------- load_pgn
\* A reload that keeps the store it finds.
StoreKept(old) == old

\* Line 266: new Array(positions.length), an array with no element set.
FreshStore(old) == EmptyResults
\* Lines 238-274, for a PGN that chess.js turns into the list game.
load_pgn(game) ==
  /\ Idle
  /\ Room(Len(game))
  /\ positions' = game
  /\ evaluationValues' = [k \in 1 .. Len(game) |-> 0]
  /\ analysisResults' = FreshStore(analysisResults)
  /\ chessappAnalysisResults' = analysisResults'
  /\ trigger_engine_analysis(game)
  /\ cacheArg' = Undefined
  /\ UNCHANGED boardVars
  /\ UNCHANGED <<workerAvailable, analyserVars, dispatchVars, engineVars,
                 callVars, readyokSeen>>

\* ------------------------------------------------------ engine_add_listener
\* Lines 600-601: the listener is pushed at the end of engineListeners.
engine_add_listener(id) == engineListeners' = Append(engineListeners, id)

\* ------------------------------------------------------ engine_analyse_fen
ListenerId(L, plyIndex) == [loop |-> L, ply |-> plyIndex]

\* Lines 692-746, the executor, called by loop L whose record is lp: two
\* sends, then the listener and the timer are registered and L awaits.
engine_analyse_fen(L, lp, fen, plyIndex) ==
  IF ~engine_send(engineWorker)
    THEN /\ loops' = (L :> [lp EXCEPT !.pc = "rejected",
                                      !.val = [message |-> "Engine worker not available"]])
                       @@ loops
         /\ UNCHANGED <<postVars, analyserVars>>
    ELSE LET id == ListenerId(L, plyIndex)
             tag == [batch |-> L, idx |-> plyIndex]
         IN /\ posted' = posted \o <<<<"position", "fen", fen[1], fen[2]>>,
                                     <<"go", "depth", ENGINE_SEARCH_DEPTH>>>>
            /\ postedBy' = postedBy \o <<tag, tag>>
            /\ analyses' = (id :> [fen |-> fen, plyIndex |-> plyIndex,
                                   infoLines |-> <<>>]) @@ analyses
            /\ engine_add_listener(id)
            /\ searchTimers' = searchTimers \cup {id}
            /\ loops' = (L :> [lp EXCEPT !.pc = "await_fen"]) @@ loops

\* Lines 705-710: cleanup() deregisters the listener and clears the timer;
\* the closure is unreachable afterwards (settled).
cleanup(id) ==
  /\ engineListeners' = Remove(engineListeners, id)
  /\ searchTimers' = searchTimers \ {id}
  /\ analyses' = Without(analyses, id)

\* A result built from a bestmove line that carries an error field too.
BuildResultFlagged(closure, line) ==
  [fen |-> closure.fen, ply |-> closure.plyIndex,
   bestmove |-> IF Has(line, 1) THEN At(line, 1) ELSE "",
   ponder |-> <<>>, score |-> Undefined, pv |-> <<>>, rawInfo |-> <<>>,
   error |-> "none"]

\* The first info line kept, not the last.
FirstInfo(infoLines) == IF Len(infoLines) > 0 THEN infoLines[1] ELSE <<>>

\* Line 725: the last info line kept, or '' when there is none.
LastInfo(infoLines) == IF Len(infoLines) > 0 THEN infoLines[Len(infoLines)] ELSE <<>>

\* Lines 719-735: the result the listener builds from a bestmove line.
BuildResult(closure, line) ==
  LET bestmove == IF Has(line, 1) THEN At(line, 1) ELSE ""
      ponder == IF Has(line, 2) /\ At(line, 2) = "ponder" /\ Has(line, 3)
                  THEN <<At(line, 3)>> ELSE <<>>
      lastInfo == LastInfo(closure.infoLines)
      parsed == parse_engine_info_line(lastInfo)
  IN [fen |-> closure.fen, ply |-> closure.plyIndex, bestmove |-> bestmove,
      ponder |-> ponder, score |-> parsed.score, pv |-> parsed.pv,
      rawInfo |-> parsed.rawInfo]

\* resolve / reject of the promise loop L awaits for element plyIndex.
Settle(L, plyIndex, pc, val) ==
  loops' = IF L \in DOMAIN loops /\ loops[L].pc = "await_fen" /\ loops[L].i = plyIndex
             THEN [loops EXCEPT ![L].pc = pc, ![L].val = val]
             ELSE loops

\* Lines 712-739: the listener of analysis id is called with a line.
Listener(id, line) ==
  IF id \notin DOMAIN analyses
    THEN /\ cacheArg' = Undefined
         /\ UNCHANGED <<storeVars, analyserVars, loops>>
    ELSE IF StartsWithWord(line, "info")
      THEN /\ analyses' = [analyses EXCEPT ![id].infoLines = Append(@, line)]
           /\ cacheArg' = Undefined
           /\ UNCHANGED <<storeVars, engineListeners, searchTimers, loops>>
      ELSE IF ~StartsWithWord(line, "bestmove")
        THEN /\ cacheArg' = Undefined
             /\ UNCHANGED <<storeVars, analyserVars, loops>>
        ELSE LET result == BuildResult(analyses[id], line)
             IN /\ update_engine_result_cache(result)
                /\ cleanup(id)
                /\ Settle(id.loop, id.ply, "resolved", result)

\* A timer that never fires.
TimerNever(id) == FALSE

\* Lines 742-745: setTimeout calls back once the delay has passed, unless
\* the timer was cleared.
TimerDue(id) == id \in searchTimers

\* Lines 742-745: the search timer fires.
SearchTimeout(id) ==
  /\ Idle
  /\ TimerDue(id)
  /\ cleanup(id)
  /\ Settle(id.loop, id.ply, "rejected", [message |-> "Engine search timeout"])
  /\ cacheArg' = Undefined
  /\ UNCHANGED boardVars
  /\ UNCHANGED <<storeVars, workerAvailable, initVars, engineAnalysisPending,
                 engineAnalysisRunning, dispatchVars, engineVars, postVars,
                 batchVars, callVars, readyokSeen>>

\* -------------------------------------------- engine_run_analysis_for_list
\* A loop that goes on whatever the handshake's outcome.
InitialisedAlways(outcome) == TRUE

\* Line 751: whether the loop goes on after the handshake settled.
Initialised(outcome) == outcome = "true"

\* Lines 753-756, 765: the loop head for loop L with record lp: the next
\* element is handed to engine_analyse_fen, or the loop is left (the batch's
\* results are published by the next step, LoopEnd).
LoopHead(L, lp) ==
  IF lp.i < Len(lp.fenList)
    THEN engine_analyse_fen(L, lp, At(lp.fenList, lp.i), lp.i)
    ELSE /\ loops' = [loops EXCEPT ![L] = [lp EXCEPT !.pc = "publish"]]
         /\ UNCHANGED <<postVars, analyserVars>>

\* A loop that records the outcome of an element and stays on it.
AdvanceRetries(lp, value) ==
  [lp EXCEPT !.results[lp.i] = value, !.val = Undefined]

\* Lines 753, 757, 760: results[i] = value, then i += 1.
Advance(lp, value) ==
  [lp EXCEPT !.results[lp.i] = value, !.i = @ + 1, !.val = Undefined]

\* Lines 750-753: the await of engine_initialise() resumes.  On false the
\* function returns and engine_process_queue's finally runs (lines 778-783).
LoopInitDone(L) ==
  /\ inbox = <<>>
  /\ L \in DOMAIN loops
  /\ loops[L].pc = "await_init"
  /\ Settled
  /\ initSeen' = initSeen \cup {engineInitPromise}
  /\ IF Initialised(engineInitPromise)
       THEN /\ LoopHead(L, loops[L])
            /\ UNCHANGED <<initVars, engineAnalysisPending, engineAnalysisRunning,
                           pendingId>>
       ELSE /\ Finally(Without(loops, L))
            /\ UNCHANGED analyserVars
  /\ cacheArg' = Undefined
  /\ UNCHANGED boardVars
  /\ UNCHANGED <<storeVars, workerAvailable, dispatchVars, engineVars, submits,
                 superseded, batches, initCalls, initAwaiting, delivered,
                 readyokSeen>>

\* Lines 756-757: the await resumes with a result; the loop goes on.
LoopResolved(L) ==
  /\ inbox = <<>>
  /\ L \in DOMAIN loops
  /\ loops[L].pc = "resolved"
  /\ LoopHead(L, Advance(loops[L], loops[L].val))
  /\ cacheArg' = Undefined
  /\ UNCHANGED boardVars
  /\ UNCHANGED <<storeVars, workerAvailable, initVars, engineAnalysisPending,
                 engineAnalysisRunning, dispatchVars, engineVars, batchVars,
                 callVars, readyokSeen>>

\* A failure recorded without its error.
ErrorResultUnmarked(fen, ply, message) == [fen |-> fen, ply |-> ply]

\* Line 759: the result recorded for a failed element.
ErrorResult(fen, ply, message) == [fen |-> fen, ply |-> ply, error |-> message]

\* Lines 758-763: the await throws; the failure is recorded, written to the
\* cache, and the loop goes on.
LoopCatch(L) ==
  /\ inbox = <<>>
  /\ L \in DOMAIN loops
  /\ loops[L].pc = "rejected"
  /\ LET errorResult == ErrorResult(At(loops[L].fenList, loops[L].i),
                                    loops[L].i, loops[L].val.message)
     IN /\ LoopHead(L, Advance(loops[L], errorResult))
        /\ update_engine_result_cache(errorResult)
  /\ UNCHANGED boardVars
  /\ UNCHANGED <<workerAvailable, initVars, engineAnalysisPending,
                 engineAnalysisRunning, dispatchVars, engineVars, batchVars,
                 callVars, readyokSeen>>

\* Line 765, then lines 778-783: the batch's results are published, the
\* coroutine ends, and a pending list starts the next one.
LoopEnd(L) ==
  /\ inbox = <<>>
  /\ L \in DOMAIN loops
  /\ loops[L].pc = "publish"
  /\ publish_analysis_results(loops[L].results)
  /\ Finally(Without(loops, L))
  /\ cacheArg' = Undefined
  /\ UNCHANGED boardVars
  /\ UNCHANGED <<positions, evaluationValues, workerAvailable, analyserVars,
                 dispatchVars, engineVars, submits, superseded, batches,
                 callVars, readyokSeen>>

\* -------------------------------------------------- engine_handle_message
RECURSIVE TextOf(_)
\* The text of a message: its lines, each a sequence of tokens, with a
\* newline between two of them.
TextOf(lines) ==
  IF lines = <<>> THEN <<>>
  ELSE IF Len(lines) = 1 THEN lines[1]
  ELSE lines[1] \o <<"\n">> \o TextOf(Tail(lines))

\* A filter that lets the empty lines through.
KeepEmpty(lines) == lines

\* Line 523: filter(Boolean) drops the empty lines.
NonEmpty(lines) == SelectSeq(lines, LAMBDA line : line # <<>>)

\* Line 523: text.split(/\r?\n/).filter(Boolean).
LinesOf(text) == NonEmpty(Split(text, "\n"))
\* A waiter that takes any line for the one it waits for.
WaiterMatchesAny(waiter, line) == TRUE

\* The predicates of engine_initialise: line => line.startsWith(token).
WaiterMatches(waiter, line) == StartsWith(line, waiter.predicate)
\* Lines 543-546: a predicate that throws has its waiter resolved as well.
PredicateThrows(waiter) == waiter.predicate = "throws"

\* A listener added by a caller other than the analyzer: it notes the line
\* it is called with, and one of the throwing kind throws after that.
IsProbe(id) == "probe" \in DOMAIN id
Throws(id) == IsProbe(id) /\ id.throws
ProbeListener(id, line) ==
  /\ analyses' = [analyses EXCEPT ![id].seen = line]
  /\ cacheArg' = Undefined
  /\ UNCHANGED <<storeVars, engineListeners, searchTimers, loops>>

\* A dispatcher without the try of line 529.
ListenerErrorEscapes == FALSE

\* Lines 529-533: what a listener throws is caught around its call.
ListenerErrorCaught == TRUE

\* Lines 535-547: the waiters a line resolves.  The scan runs from the last
\* waiter to the first and goes on after a match.
\* A scan that stops at the first waiter, in registration order, that matches.
WaitersFirstMatch(waiters, line) ==
  LET hit == {k \in DOMAIN waiters : WaiterMatches(waiters[k], line)}
  IN {k \in hit : \A j \in hit : k <= j}

\* Lines 535-547: the scan visits every waiter, from the last to the first.
WaitersResolved(waiters, line) ==
  {k \in DOMAIN waiters : WaiterMatches(waiters[k], line) \/ PredicateThrows(waiters[k])}

\* Lines 535-547 for the line at the head of inbox, then the forEach of line
\* 524 goes to the next line with a new snapshot of listeners (the list as
\* the listeners left it).  waiter.resolve clears the waiter's timer and
\* resumes the handshake.
ScanWaiters(listeners) ==
  /\ LET line == Head(inbox)
         hit == WaitersResolved(engineWaiters, line)
         preds == {engineWaiters[k].predicate : k \in {j \in hit :
                                                 engineWaiters[j].awaiter = "init"}}
     IN /\ engineWaiters' =
             SelectSeq(engineWaiters, LAMBDA w : \A k \in hit : engineWaiters[k] # w)
        /\ waiterTimers' = waiterTimers \ {engineWaiters[k].timer : k \in hit}
        /\ initPc' = IF initPc = "wait_uciok" /\ "uciok" \in preds
                       THEN "after_uciok"
                       ELSE IF initPc = "wait_readyok" /\ "readyok" \in preds
                         THEN "after_readyok"
                         ELSE initPc
        /\ readyokSeen' = (readyokSeen \/ (StartsWith(line, "readyok")
                             /\ \E k \in DOMAIN posted : posted[k] = <<"isready">>))
  /\ inbox' = Tail(inbox)
  /\ todo' = IF Tail(inbox) # <<>> THEN listeners ELSE <<>>

\* Lines 528-534: the next listener of the snapshot is called with the line;
\* after the last one the waiters are scanned.
CallListener ==
  /\ inbox # <<>>
  /\ todo # <<>>
  /\ IF IsProbe(Head(todo))
       THEN ProbeListener(Head(todo), Head(inbox))
       ELSE Listener(Head(todo), Head(inbox))
  /\ IF Throws(Head(todo)) /\ ~ListenerErrorCaught
       THEN \* the exception leaves both forEach and engine_handle_message
            /\ inbox' = <<>>
            /\ todo' = <<>>
            /\ UNCHANGED <<engineWaiters, waiterTimers, initPc, readyokSeen>>
       ELSE IF Tail(todo) = <<>>
         THEN ScanWaiters(engineListeners')
         ELSE /\ todo' = Tail(todo)
              /\ UNCHANGED <<inbox, engineWaiters, waiterTimers, initPc, readyokSeen>>
  /\ UNCHANGED boardVars
  /\ UNCHANGED <<workerAvailable, engineWorker, engineInitPromise,
                 engineAnalysisPending, engineAnalysisRunning, engineVars,
                 postVars, batchVars, callVars>>

\* A line is dispatched while no listener is registered.
DispatchLine ==
  /\ inbox # <<>>
  /\ todo = <<>>
  /\ ScanWaiters(engineListeners)
  /\ cacheArg' = Undefined
  /\ UNCHANGED boardVars
  /\ UNCHANGED <<storeVars, workerAvailable, engineWorker, engineInitPromise,
                 analyserVars, queueVars, engineVars, postVars, batchVars,
                 callVars>>

\* A timer that leaves its waiter in the list.
TimedOutStays(waiters, timer) == waiters

\* Lines 586-587: the waiter of the timer is spliced out.
TimedOut(waiters, timer) == SelectSeq(waiters, LAMBDA w : w.timer # timer)

\* Lines 585-589: a waiter's timer fires: the waiter is removed and its
\* promise rejected; the handshake, when it is the one awaiting, throws.
WaiterTimeout(timer) ==
  /\ Idle
  /\ timer \in waiterTimers
  /\ waiterTimers' = waiterTimers \ {timer}
  /\ engineWaiters' = TimedOut(engineWaiters, timer)
  /\ initPc' = IF /\ initPc \in {"wait_uciok", "wait_readyok"}
                  /\ \E k \in DOMAIN engineWaiters :
                       engineWaiters[k].timer = timer /\ engineWaiters[k].awaiter = "init"
                 THEN "threw" ELSE initPc
  /\ cacheArg' = Undefined
  /\ UNCHANGED boardVars
  /\ UNCHANGED <<storeVars, workerAvailable, engineWorker, engineInitPromise,
                 analyserVars, queueVars, dispatchVars, engineVars, postVars,
                 batchVars, callVars, readyokSeen>>

\* ------------------------------------------------------ the engine process
\* A UCI engine answers the commands in the order posted: uci with id lines
\* and uciok, isready with readyok, go with info lines and one bestmove.
Answered == {"uci", "isready", "go"}

EngineStep(cursor, infos) ==
  LET js == {j \in cursor + 1 .. Len(posted) : posted[j][1] \in Answered}
  IN IF js = {}
       THEN {}
       ELSE
         LET j == CHOOSE k \in js : \A m \in js : k <= m
             here == [cursor |-> cursor, infos |-> infos]
             done == [cursor |-> j, infos |-> 0]
         IN IF posted[j][1] = "uci"
              THEN {[line |-> BannerLine, to |-> [cursor |-> cursor, infos |-> infos + 1]] :
                      l \in IF infos < MaxInfo THEN {BannerLine} ELSE {}}
                   \cup {[line |-> UciokLine, to |-> done]}
              ELSE IF posted[j][1] = "isready"
                THEN {[line |-> ReadyokLine, to |-> done]}
                ELSE {[line |-> l, to |-> [cursor |-> cursor, infos |-> infos + 1]] :
                        l \in IF infos < MaxInfo THEN InfoLines ELSE {}}
                     \cup {[line |-> l, to |-> done] : l \in BestmoveLines}

RECURSIVE EngineChunks(_, _, _)
\* The messages of at most n lines the engine may send next.
EngineChunks(cursor, infos, n) ==
  IF n = 0
    THEN {}
    ELSE UNION {
           {[lines |-> <<s.line>>, to |-> s.to]}
             \cup {[lines |-> <<s.line>> \o r.lines, to |-> r.to] :
                     r \in EngineChunks(s.to.cursor, s.to.infos, n - 1)} :
           s \in EngineStep(cursor, infos)}

\* Lines 512-527: a message arrives; its non-empty lines are dispatched in
\* order, the first to a snapshot of the listeners.
engine_handle_message ==
  /\ Idle
  /\ engineWorker
  /\ \E chunk \in EngineChunks(engineCursor, engineInfos, MaxChunk) :
       /\ inbox' = LinesOf(TextOf(chunk.lines))
       /\ engineCursor' = chunk.to.cursor
       /\ engineInfos' = chunk.to.infos
  /\ todo' = engineListeners
  /\ cacheArg' = Undefined
  /\ UNCHANGED boardVars
  /\ UNCHANGED <<storeVars, workerAvailable, initVars, analyserVars, queueVars,
                 postVars, batchVars, callVars, readyokSeen>>

\* ------------------------------------------------------ the specification
\* The steps of the handshake, the dispatcher, the timers, the engine and the
\* queue's coroutines.
Jobs ==
  \/ InitAfterUciok
  \/ InitAfterReadyok
  \/ InitCatch
  \/ CallListener
  \/ DispatchLine
  \/ \E timer \in waiterTimers : WaiterTimeout(timer)
  \/ \E id \in searchTimers : SearchTimeout(id)
  \/ \E L \in DOMAIN loops : LoopInitDone(L)
  \/ \E L \in DOMAIN loops : LoopResolved(L)
  \/ \E L \in DOMAIN loops : LoopCatch(L)
  \/ \E L \in DOMAIN loops : LoopEnd(L)

\* The jobs of the page, and the messages of the engine.
Steps ==
  \/ Jobs
  \/ engine_handle_message

\* The page: games are loaded at any time between two jobs.
Next ==
  \/ \E game \in Games : load_pgn(game)
  \/ Steps

Spec == Init /\ [][Next]_vars

\* One game is loaded, and engine_initialise is also called directly, before
\* or after the handshake settles.
LoadFirst(game) == submits = 0 /\ load_pgn(game)

NextCallers ==
  \/ \E game \in Games : LoadFirst(game)
  \/ InitialiseCall
  \/ CallerObserves
  \/ Steps

SpecCallers == Init /\ [][NextCallers]_vars

\* The page again, for a few loads of the shorter game, with the event loop
\* running every job that is ready and every timer set firing unless it is
\* cleared, as a browser does.
LoadShort == submits < MaxLoads /\ load_pgn(GameB)

NextLive ==
  \/ LoadShort
  \/ Steps

SpecLive == Init /\ [][NextLive]_vars /\ WF_vars(Steps)

\* The same page with an engine that may fall silent at any moment: the event
\* loop runs every job that is ready and fires every timer that is due, and
\* nothing makes the engine send its next line.
SpecQuiet == Init /\ [][NextLive]_vars /\ WF_vars(Jobs)

\* One game is loaded, and trigger_engine_analysis() is called again for it
\* at any time between two jobs.
TriggerCall ==
  /\ Idle
  /\ positions # <<>>
  /\ Room(Len(positions))
  /\ trigger_engine_analysis(positions)
  /\ cacheArg' = Undefined
  /\ UNCHANGED boardVars
  /\ UNCHANGED <<storeVars, workerAvailable, analyserVars, dispatchVars,
                 engineVars, callVars, readyokSeen>>

NextSubmit ==
  \/ \E game \in Games : LoadFirst(game)
  \/ TriggerCall
  \/ Steps

SpecSubmit == Init /\ [][NextSubmit]_vars

\* ------------------------------------------- the functions called one by one
\* The functions of the engine client are global functions of the page: here
\* each is called on its own, and messages of any lines are handed to the
\* worker's onmessage handler.
Predicates == {"uciok", "readyok", "throws"}

\* A caller awaits engine_wait_for(predicate, ENGINE_WAIT_TIMEOUT_MS).
WaitForCall(predicate) ==
  /\ Idle
  /\ Len(engineWaiters) < MaxWaiters
  /\ engine_wait_for(predicate, "caller")
  /\ cacheArg' = Undefined
  /\ UNCHANGED boardVars
  /\ UNCHANGED <<storeVars, workerAvailable, engineWorker, engineInitPromise,
                 initPc, analyserVars, queueVars, dispatchVars, engineVars,
                 postVars, batchVars, callVars, readyokSeen>>

Probes == {id \in DOMAIN analyses : IsProbe(id)}

\* A caller adds a listener with engine_add_listener.
AddListenerCall(throws) ==
  /\ Idle
  /\ Cardinality(Probes) < MaxProbes
  /\ LET id == [probe |-> Cardinality(Probes) + 1, throws |-> throws]
     IN /\ engine_add_listener(id)
        /\ analyses' = (id :> [seen |-> <<>>]) @@ analyses
  /\ cacheArg' = Undefined
  /\ UNCHANGED boardVars
  /\ UNCHANGED <<storeVars, workerAvailable, initVars, searchTimers, queueVars,
                 dispatchVars, engineVars, postVars, batchVars, callVars,
                 readyokSeen>>

\* The caller of one engine_analyse_fen(fen, 0), as the coroutine 0.
Caller == [fenList |-> <<>>, i |-> 0, results |-> EmptyResults,
           pc |-> "call", val |-> Undefined, overtaken |-> -1]

AnalyseCall(fen) ==
  /\ Idle
  /\ 0 \notin DOMAIN loops
  /\ Cardinality({m \in DOMAIN posted : posted[m][1] = "go"}) < MaxAnalyses
  /\ engine_analyse_fen(0, Caller, fen, 0)
  /\ cacheArg' = Undefined
  /\ UNCHANGED boardVars
  /\ UNCHANGED <<storeVars, workerAvailable, initVars, engineAnalysisPending,
                 engineAnalysisRunning, dispatchVars, engineVars, batchVars,
                 callVars, readyokSeen>>

\* The caller's await resumes with the result or the error.
AnalyseDone ==
  /\ inbox = <<>>
  /\ 0 \in DOMAIN loops
  /\ loops[0].pc \in {"resolved", "rejected"}
  /\ loops' = Without(loops, 0)
  /\ cacheArg' = Undefined
  /\ UNCHANGED boardVars
  /\ UNCHANGED <<storeVars, workerAvailable, initVars, analyserVars,
                 engineAnalysisPending, engineAnalysisRunning, dispatchVars,
                 engineVars, postVars, batchVars, callVars, readyokSeen>>

\* The lines a message may hold, the empty line among them.
MateInfoLine == <<"info", "depth", "16", "score", "mate", "3", "pv", "d2d4">>
PlainBestmoveLine == <<"bestmove", "d2d4">>
DirectLines == {UciokLine, ReadyokLine, <<>>} \cup InfoLines \cup BestmoveLines
\* The lines of a search: two info lines that differ, a bestmove line with
\* a ponder move and one without.
SearchLines ==
  {MateInfoLine, PlainBestmoveLine, UciokLine, ReadyokLine}
    \cup InfoLines \cup BestmoveLines
Chunks(lines, n) == UNION {[1 .. k -> lines] : k \in 1 .. n}
\* The texts of at most MaxChunk lines.
Payloads(lines) == {TextOf(chunk) : chunk \in Chunks(lines, MaxChunk)}

\* Lines 512-527 for a message of any text.
MessageOf(text) ==
  /\ Idle
  /\ engineWorker
  /\ delivered < MaxMessages
  /\ delivered' = delivered + 1
  /\ inbox' = LinesOf(text)
  /\ todo' = IF LinesOf(text) = <<>> THEN <<>> ELSE engineListeners
  /\ cacheArg' = Undefined
  /\ UNCHANGED boardVars
  /\ UNCHANGED <<storeVars, workerAvailable, initVars, analyserVars, queueVars,
                 engineVars, postVars, batchVars, initCalls, initAwaiting,
                 initSeen, readyokSeen>>

\* The handshake, with callers of engine_initialise.
Handshake ==
  \/ InitialiseCall
  \/ CallerObserves
  \/ InitAfterUciok
  \/ InitAfterReadyok
  \/ InitCatch
  \/ \E timer \in waiterTimers : WaiterTimeout(timer)

\* Callers of engine_wait_for beside the handshake; no listener is added.
NextWaiters ==
  \/ Handshake
  \/ \E predicate \in Predicates : WaitForCall(predicate)
  \/ \E text \in Payloads(DirectLines) : MessageOf(text)
  \/ DispatchLine

SpecWaiters == Init /\ [][NextWaiters]_vars

\* Callers of engine_add_listener and engine_analyse_fen beside the
\* handshake.
NextListeners ==
  \/ Handshake
  \/ \E throws \in BOOLEAN : AddListenerCall(throws)
  \/ \E fen \in {StartFen} : AnalyseCall(fen)
  \/ AnalyseDone
  \/ \E text \in Payloads(DirectLines) : MessageOf(text)
  \/ CallListener
  \/ DispatchLine
  \/ \E id \in searchTimers : SearchTimeout(id)

SpecListeners == Init /\ [][NextListeners]_vars

\* Callers of engine_analyse_fen, the engine sending any lines of a search.
NextAnalyse ==
  \/ Handshake
  \/ \E fen \in {StartFen} : AnalyseCall(fen)
  \/ AnalyseDone
  \/ \E text \in Payloads(SearchLines) : MessageOf(text)
  \/ CallListener
  \/ DispatchLine
  \/ \E id \in searchTimers : SearchTimeout(id)

SpecAnalyse == Init /\ [][NextAnalyse]_vars

\* ------------------------------------------- the cache called result by result
\* update_engine_result_cache is called with results of any score for the
\* positions of the shorter game, and with results for other positions.
CpValues == {CpStep * k : k \in -MaxCpSteps .. MaxCpSteps}
MateValues == -MaxMate .. MaxMate
Scores ==
  {[type |-> "cp", value |-> v] : v \in CpValues}
    \cup {[type |-> "mate", value |-> v] : v \in MateValues}
    \cup {[type |-> "other", value |-> 0]}

ResultOf(fen, ply, score) ==
  [fen |-> fen, ply |-> ply, bestmove |-> "e2e4", ponder |-> <<>>,
   score |-> score, pv |-> <<>>, rawInfo |-> <<>>]

CallResults ==
  LET at == {[fen |-> GameB[k], ply |-> k - 1] : k \in DOMAIN GameB}
  IN {ResultOf(a.fen, a.ply, s) : a \in at, s \in Scores \cup {Undefined}}
     \cup {ErrorResult(a.fen, a.ply, "Engine search timeout") : a \in at}
     \cup {ResultOf(GameB[1], 1, [type |-> "cp", value |-> CpStep]),
           ResultOf(GameB[1], Len(GameB), [type |-> "cp", value |-> CpStep])}

CacheCall(result) ==
  /\ Idle
  /\ submits > 0
  /\ update_engine_result_cache(result)
  /\ UNCHANGED boardVars
  /\ UNCHANGED <<workerAvailable, initVars, analyserVars, queueVars,
                 dispatchVars, engineVars, postVars, batchVars, callVars,
                 readyokSeen>>

NextCache ==
  \/ LoadFirst(GameB)
  \/ \E result \in CallResults : CacheCall(result)

SpecCache == Init /\ [][NextCache]_vars

\* ------------------------------------------------------ the board drawn
\* draw_board is called with the FEN of any position: ranks of at most
\* MaxRankLen characters that describe 8 squares, and the ranks of the
\* start position and of an endgame.
Pieces == {"P", "k"}
RECURSIVE Width(_)
\* The squares a rank describes.
Width(rank) ==
  IF rank = <<>> THEN 0
  ELSE (IF Head(rank) \in DOMAIN DigitValue THEN DigitValue[Head(rank)] ELSE 1)
         + Width(Tail(rank))
Ranks ==
  {rank \in UNION {[1 .. n -> DOMAIN DigitValue \cup Pieces] : n \in 1 .. MaxRankLen} :
     Width(rank) = 8}
    \cup {<<"1", "P", "6">>, <<"R", "6", "K">>,
          <<"r", "1", "b", "q", "k", "b", "n", "r">>,
          <<"p", "p", "p", "p", "p", "p", "p", "p">>,
          <<"R", "N", "B", "Q", "K", "B", "N", "R">>}
RECURSIVE Join(_)
\* The ranks joined by '/'.
Join(ranks) ==
  IF Len(ranks) = 1 THEN ranks[1] ELSE ranks[1] \o <<"/">> \o Join(Tail(ranks))
MixedFen ==
  <<Join(<<<<"r", "1", "b", "q", "k", "b", "n", "r">>,
           <<"p", "p", "p", "p", "p", "p", "p", "p">>,
           <<"8">>, <<"8">>, <<"8">>, <<"8">>,
           <<"P", "P", "P", "P", "P", "P", "P", "P">>,
           <<"R", "N", "B", "Q", "K", "B", "N", "R">>>>), "w">>
BoardFens ==
  {<<Join([i \in 1 .. 8 |-> IF i = r THEN x ELSE y]), "w">> :
     r \in 1 .. 8, x \in Ranks, y \in {<<"8">>, <<"p", "p", "p", "p", "p", "p", "p", "p">>}}
    \cup {MixedFen}

\* Lines 121-148 of draw_board(fen): the matrix of the FEN is computed and
\* kept as lastMatrix (the squares of the page are not modelled).
draw_board(fen) ==
  /\ inbox = <<>>
  /\ lastMatrix' = fen2matrix(fen)
  /\ drawArg' = fen
  /\ UNCHANGED <<storeVars, workerAvailable, initVars, analyserVars, queueVars,
                 dispatchVars, engineVars, postVars, batchVars, callVars,
                 readyokSeen, cacheArg>>

NextBoard == \E fen \in BoardFens : draw_board(fen)

SpecBoard == Init /\ [][NextBoard]_vars

\* ---------------------------------------------------------- the properties
\* C1: every call of update_engine_result_cache(result) stores result at
\* result.ply, in the store and in the snapshot, if and only if the live
\* positions[result.ply] is the position the result was computed for; every
\* other call leaves analysisResults, evaluationValues and the snapshot as
\* they were.
C1_CacheWriteIffPositionMatches ==
  [][cacheArg' # Undefined =>
       IF Has(positions, cacheArg'.ply) /\ At(positions, cacheArg'.ply) = cacheArg'.fen
         THEN /\ analysisResults' = [analysisResults EXCEPT ![cacheArg'.ply] = cacheArg']
              /\ chessappAnalysisResults' = analysisResults'
         ELSE UNCHANGED <<analysisResults, evaluationValues, chessappAnalysisResults>>]_vars

\* A result of a replaced game was just refused at a ply whose position
\* differs, while the store holds a result that was accepted.
C1_Witness ==
  /\ cacheArg # Undefined
  /\ Has(positions, cacheArg.ply)
  /\ At(positions, cacheArg.ply) # cacheArg.fen
  /\ analysisResults[cacheArg.ply] = Undefined
  /\ \E p \in Plies : /\ analysisResults[p] # Undefined
                       /\ "bestmove" \in DOMAIN analysisResults[p]

\* C2: every result held by the Result Store or by the published snapshot at
\* ply p was computed for the live positions[p], in every reachable state,
\* also after a game was loaded while a batch for the old game was running.
C2_StoredResultsMatchPositions ==
  \A p \in Plies :
    /\ analysisResults[p] # Undefined =>
         Has(positions, p) /\ At(positions, p) = analysisResults[p].fen
    /\ chessappAnalysisResults[p] # Undefined =>
         Has(positions, p) /\ At(positions, p) = chessappAnalysisResults[p].fen

\* The commands posted so far, each with the element it was posted for.
Sent == [m \in DOMAIN posted |-> [command |-> posted[m], by |-> postedBy[m]]]
\* Those posted for submission b, in the order posted.
SentFor(b) == SelectSeq(Sent, LAMBDA e : e.by.batch = b)
\* One position/go pair per element of submission b, in index order.
ExpectedFor(b) ==
  [m \in 1 .. 2 * Len(batches[b]) |->
     LET i == (m - 1) \div 2
         fen == At(batches[b], i)
     IN [command |-> IF m % 2 = 1
                       THEN <<"position", "fen", fen[1], fen[2]>>
                       ELSE <<"go", "depth", "16">>,
         by |-> [batch |-> b, idx |-> i]]]
IsPrefix(s, t) == Len(s) <= Len(t) /\ s = SubSeq(t, 1, Len(s))
\* Submission b was taken from the slot by engine_process_queue.
Started(b) ==
  /\ b \in 1 .. submits
  /\ b \notin superseded
  /\ ~(engineAnalysisPending # <<>> /\ pendingId = b)

\* C3: the position/go pairs of a batch are sent in index order 0, 1, ...,
\* each element once (a timeout is not retried), every element of a batch
\* that ran to its end after a successful handshake was sent, and the pair of
\* an element is sent only when every earlier element has its result or its
\* failure recorded and its listener gone.
C3_PairsInOrderOnceEach ==
  \A b \in 1 .. submits :
    /\ IsPrefix(SentFor(b), ExpectedFor(b))
    /\ Len(SentFor(b)) % 2 = 0
    /\ (Started(b) /\ b \notin DOMAIN loops /\ engineInitPromise = "true")
         => SentFor(b) = ExpectedFor(b)
    /\ b \in DOMAIN loops =>
         \A m \in DOMAIN SentFor(b) : \A j \in 0 .. SentFor(b)[m].by.idx - 1 :
           /\ loops[b].results[j] # Undefined
           /\ ListenerId(b, j) \notin DOMAIN analyses

\* A batch of three was sent whole although its second element timed out.
C3_Witness ==
  \E b \in DOMAIN loops :
    /\ Len(batches[b]) = 3
    /\ SentFor(b) = ExpectedFor(b)
    /\ loops[b].results[1] # Undefined
    /\ "error" \in DOMAIN loops[b].results[1]

\* C4: a batch that was replaced in the pending slot before it started never
\* starts: no loop runs it, no command is ever posted for it and no analysis
\* (so no result) is ever made for it; and the batch a loop starts with is
\* always the one submitted last.
C4_SupersededNeverStarts ==
  /\ [](\A b \in superseded :
          /\ b \notin DOMAIN loops
          /\ \A m \in DOMAIN postedBy : postedBy[m].batch # b
          /\ \A id \in DOMAIN analyses : id.loop # b)
  /\ [][\A L \in DOMAIN loops' \ DOMAIN loops :
          L = submits' /\ loops'[L].fenList = batches'[L]]_vars

\* B was replaced by C while another batch ran, and C is now running.
C4_Witness ==
  \E b \in superseded :
    /\ b > 1
    /\ b + 1 \in DOMAIN loops
    /\ \E m \in DOMAIN postedBy : postedBy[m].batch = b + 1
    /\ \E m \in DOMAIN postedBy : postedBy[m].batch = b - 1

\* C5: once a newer batch was submitted while element i of the running batch
\* was in flight, no element after i of the running batch is sent to the
\* engine.
C5_NoElementSentAfterSubmission ==
  \A L \in DOMAIN loops :
    loops[L].overtaken # -1 =>
      \A m \in DOMAIN postedBy :
        postedBy[m].batch = L => postedBy[m].idx <= loops[L].overtaken

\* C6: at most one processing loop is alive, engineAnalysisRunning is set
\* exactly while it is, and at most one engine_analyse_fen call is pending
\* (one closure, one listener, one search timer), whatever is submitted
\* while the loop waits for the handshake or for a position.
C6_OneLoopOneAnalysis ==
  /\ Cardinality(DOMAIN loops) <= 1
  /\ engineAnalysisRunning <=> DOMAIN loops # {}
  /\ Cardinality(DOMAIN analyses) <= 1
  /\ Len(engineListeners) <= 1
  /\ Cardinality(searchTimers) <= 1
  /\ \A id \in DOMAIN analyses :
       id.loop \in DOMAIN loops /\ loops[id.loop].pc = "await_fen"
                               /\ loops[id.loop].i = id.ply

\* A list was submitted while the loop waited for a position, and another
\* one before that: the loop is still the only one.
C6_Witness ==
  /\ submits >= 3
  /\ engineAnalysisPending # <<>>
  /\ \E L \in DOMAIN loops : loops[L].pc = "await_fen" /\ loops[L].overtaken # -1
  /\ Cardinality(DOMAIN analyses) = 1

\* What the loop has recorded for element j of list fenList is a failure.
IsErrorResult(r, fenList, j) ==
  /\ DOMAIN r = {"fen", "ply", "error"}
  /\ r.fen = At(fenList, j) /\ r.ply = j
  /\ r.error \in {"Engine search timeout", "Engine worker not available"}
\* ... is a result built from a bestmove line.
IsNormalResult(r, fenList, j) ==
  /\ "error" \notin DOMAIN r
  /\ "bestmove" \in DOMAIN r
  /\ r.fen = At(fenList, j) /\ r.ply = j

\* C7: a failed element does not end the batch: every element the loop has
\* passed has a result, which is either a failure with its error set or a
\* normal result without one, and after a failure at element k the next
\* element k + 1 is sent to the engine all the same.
C7_FailureDoesNotAbortBatch ==
  \A L \in DOMAIN loops :
    \A j \in 0 .. loops[L].i - 1 :
      LET r == loops[L].results[j]
      IN /\ r # Undefined
         /\ IsErrorResult(r, loops[L].fenList, j) \/ IsNormalResult(r, loops[L].fenList, j)
         /\ j + 1 < Len(loops[L].fenList) =>
              \E m \in DOMAIN postedBy : postedBy[m] = [batch |-> L, idx |-> j + 1]

\* The second of three searches timed out; the third was sent and answered.
C7_Witness ==
  \E L \in DOMAIN loops :
    /\ Len(loops[L].fenList) = 3
    /\ loops[L].i = 3
    /\ IsNormalResult(loops[L].results[0], loops[L].fenList, 0)
    /\ IsErrorResult(loops[L].results[1], loops[L].fenList, 1)
    /\ loops[L].results[1].error = "Engine search timeout"
    /\ IsNormalResult(loops[L].results[2], loops[L].fenList, 2)

\* How many times command word was posted.
Count(word) == Cardinality({m \in DOMAIN posted : posted[m][1] = word})

\* C8 as stated: once engine_initialise was called, exactly one uci command
\* has been sent in the session.
C8_ExactlyOneUci == engineInitPromise # "null" => Count("uci") = 1

\* C8, amended: all callers of engine_initialise, concurrent or late, observe
\* the one memoized outcome; at most one uci is sent (exactly one when a
\* worker could be made, none otherwise), at most one isready (exactly one,
\* after exactly one uci, when the outcome is true); and a call made once
\* the handshake has completed sends nothing.
C8_HandshakeMemoized ==
  /\ [](/\ Cardinality(initSeen) <= 1
        /\ initSeen \subseteq {engineInitPromise}
        /\ Count("uci") <= 1
        /\ Count("isready") <= 1
        /\ engineInitPromise # "null" =>
             Count("uci") = (IF workerAvailable THEN 1 ELSE 0)
        /\ engineInitPromise = "true" =>
             Count("uci") = 1 /\ Count("isready") = 1)
  /\ [][(Settled /\ initCalls' = initCalls + 1) =>
          posted' = posted /\ engineInitPromise' = engineInitPromise]_vars

\* The queue and two direct callers, one of them late, have all observed
\* true after one uci and one isready.
C8_Witness ==
  /\ initCalls >= 2
  /\ initAwaiting = 0
  /\ submits = 1
  /\ initSeen = {"true"}
  /\ \E m \in DOMAIN postedBy : postedBy[m].batch = 1
  /\ Count("uci") = 1 /\ Count("isready") = 1

\* Some element has a result in the store or in the snapshot.
StoreWritten ==
  \E p \in Plies : analysisResults[p] # Undefined \/ chessappAnalysisResults[p] # Undefined

\* C9: a position or go command was sent, or a result (normal or error) is
\* in the Result Store, only if the handshake's outcome is true, which takes
\* a readyok line received after isready was sent.
C9_NoAnalysisWithoutHandshake ==
  /\ (Count("position") > 0 \/ Count("go") > 0 \/ StoreWritten \/ cacheArg # Undefined)
       => engineInitPromise = "true"
  /\ engineInitPromise = "true" => readyokSeen /\ Count("isready") = 1

\* After the handshake, a search was sent and its result stored.
C9_Witness ==
  /\ engineInitPromise = "true"
  /\ Count("go") > 0
  /\ \E p \in Plies : analysisResults[p] # Undefined /\ "bestmove" \in DOMAIN analysisResults[p]

\* C10: a handshake attempt that ends without readyok (no worker, or an
\* await timed out) leaves the outcome false, and false it stays; no command
\* is sent afterwards, no position was ever sent, the Result Store stays
\* without results, and every batch submitted is consumed: between two jobs
\* the queue is at rest with an empty slot.
C10_HandshakeFailureTerminal ==
  /\ []((initPc = "done" /\ ~readyokSeen) => engineInitPromise = "false")
  /\ [](engineInitPromise = "false" =>
          /\ Count("position") = 0 /\ Count("go") = 0
          /\ ~StoreWritten
          /\ engineListeners = <<>> /\ searchTimers = {}
          /\ Idle => (engineAnalysisPending = <<>> /\ ~engineAnalysisRunning
                       /\ DOMAIN loops = {}))
  /\ [][engineInitPromise = "false" =>
          engineInitPromise' = "false" /\ posted' = posted]_vars

\* The handshake failed by a timeout, and two batches were consumed since.
C10_Witness ==
  /\ engineInitPromise = "false"
  /\ Count("uci") = 1
  /\ submits >= 2
  /\ Idle
  /\ engineAnalysisPending = <<>>

\* The go commands posted whose bestmove the engine has not sent yet.
GoInFlight == {m \in DOMAIN posted : posted[m][1] = "go" /\ m > engineCursor}

\* C11: no go command is sent while an earlier go command still waits for
\* its bestmove line, also after a per-position timeout: at most one search
\* is in flight at the engine.
C11_OneGoInFlight == Cardinality(GoInFlight) <= 1

\* A step of the dispatcher that scans the waiters for the line at the head.
WaiterScan == inbox # <<>> /\ inbox' = Tail(inbox)
\* The waiters whose predicate returns true for the line at the head.
Matching == {k \in DOMAIN engineWaiters : WaiterMatches(engineWaiters[k], Head(inbox))}
\* The waiters without those at the indices ks, in order.
Except(ks) ==
  SelectSeq(engineWaiters, LAMBDA w : \A k \in ks : engineWaiters[k] # w)

C13_ListenerErrorContained ==
  [][(inbox # <<>> /\ todo # <<>> /\ Throws(Head(todo))) =>
       /\ analyses'[Head(todo)].seen = Head(inbox)
       /\ IF Tail(todo) # <<>>
            THEN /\ todo' = Tail(todo)
                 /\ inbox' = inbox
                 /\ UNCHANGED <<engineWaiters, initPc>>
            ELSE /\ engineWaiters' = Except(WaitersResolved(engineWaiters, Head(inbox)))
                 /\ (initPc = "wait_uciok" /\ Head(inbox) = UciokLine)
                      => initPc' = "after_uciok"
                 /\ inbox' = Tail(inbox)
                 /\ todo' = IF Tail(inbox) # <<>> THEN engineListeners' ELSE <<>>]_vars

\* The first message is being dispatched: a listener that throws was called
\* with the line at the head, and the listener registered after it, not
\* called before, is the next to be called with that line.
C13_Witness ==
  /\ delivered = 1
  /\ inbox # <<>>
  /\ todo # <<>>
  /\ IsProbe(Head(todo))
  /\ analyses[Head(todo)].seen = <<>>
  /\ \E id \in Probes : /\ id.throws
                        /\ id.probe < Head(todo).probe
                        /\ analyses[id].seen = Head(inbox)

\* C14: where the worker cannot be created, engine_send returns false for
\* every command and nothing is posted; the handshake settles with false
\* (from its throw, with no waiter registered); and a call of
\* engine_analyse_fen is rejected at once with 'Engine worker not available',
\* no listener and no timer registered.
C14_NoWorkerNothingSent ==
  ~workerAvailable =>
    /\ ~engineWorker
    /\ posted = <<>>
    /\ engineInitPromise \in {"null", "pending", "false"}
    /\ engineInitPromise = "pending" => initPc = "threw"
    /\ initSeen \subseteq {"false"}
    /\ engineWaiters = <<>> /\ waiterTimers = {}
    /\ \A k \in DOMAIN engineListeners : IsProbe(engineListeners[k])
    /\ searchTimers = {}
    /\ 0 \in DOMAIN loops =>
         /\ loops[0].pc = "rejected"
         /\ loops[0].val = [message |-> "Engine worker not available"]

\* Without a worker, a caller has seen the handshake settle with false and a
\* call of engine_analyse_fen stands rejected.
C14_Witness ==
  /\ ~workerAvailable
  /\ "false" \in initSeen
  /\ 0 \in DOMAIN loops
  /\ loops[0].pc = "rejected"

\* C15: no batch is lost.  When a loop finishes while the slot holds a list,
\* the loop for that list starts in the same step, with no other submission
\* made; and every submitted batch that is not superseded is started in the
\* end.
C15_NoLostBatch ==
  /\ [][\A L \in DOMAIN loops \ DOMAIN loops' :
          (engineAnalysisPending # <<>>) =>
            /\ submits' = submits
            /\ pendingId \in DOMAIN loops'
            /\ loops'[pendingId].fenList = engineAnalysisPending
            /\ engineAnalysisPending' = <<>>
            /\ engineAnalysisRunning']_vars
  /\ \A b \in 1 .. MaxLoads :
       (submits >= b) ~> (Started(b) \/ b \in superseded)

\* The loop of a batch that waited in the slot while an older loop ran has
\* sent a command, and the older loop is gone.
C15_Witness ==
  \E b \in DOMAIN loops :
    /\ b > 1
    /\ \E m \in DOMAIN postedBy : postedBy[m].batch = b
    /\ \E a \in 1 .. b - 1 : \E m \in DOMAIN postedBy : postedBy[m].batch = a
    /\ \A a \in DOMAIN loops : a = b

\* C16: a game reload replaces the position list wholesale, re-creates the
\* store with no entries (no result at any ply, in the store and in the
\* snapshot; evaluationValues all 0, one per position) and replaces a queued
\* batch that has not started with a copy of the new position list (which a
\* loop starts with at once when none is active).
C16_ReloadResetsStoreAndSlot ==
  [][submits' = submits + 1 =>
       /\ positions' \in Games
       /\ batches'[submits'] = positions'
       /\ analysisResults' = EmptyResults
       /\ chessappAnalysisResults' = EmptyResults
       /\ evaluationValues' = [k \in 1 .. Len(positions') |-> 0]
       /\ IF engineAnalysisRunning
            THEN /\ engineAnalysisPending' = positions'
                 /\ pendingId' = submits'
                 /\ loops' = Overtaken(loops)
            ELSE /\ engineAnalysisPending' = <<>>
                 /\ submits' \in DOMAIN loops'
                 /\ loops'[submits'].fenList = positions']_vars

\* A reload has replaced the batch queued behind a loop that has results,
\* with another game: the store is empty and the slot holds the new list.
C16_Witness ==
  /\ submits - 1 \in superseded
  /\ pendingId = submits
  /\ engineAnalysisPending = positions
  /\ batches[submits - 1] # positions
  /\ analysisResults = EmptyResults
  /\ \E L \in DOMAIN loops : loops[L].results # EmptyResults

\* The cache has just taken the result it was called with.
Accepted ==
  /\ cacheArg' # Undefined
  /\ Has(positions, cacheArg'.ply)
  /\ At(positions, cacheArg'.ply) = cacheArg'.fen
\* The score of that result is of the kind type.
ScoreIs(type) ==
  IF ScoreOf(cacheArg') = Undefined THEN FALSE ELSE ScoreOf(cacheArg').type = type
WhiteToMove == cacheArg'.fen[2] = "w"

\* C17: normalize_score_for_white is bounded: for every centipawn value and
\* either side to move the value lies in [-9, 9] (in hundredths: -900 to
\* 900); a mate score of value 0 gives 0; a mate score of another value gives
\* +9 or -9, of the sign of the mate value times +1 when White is to move,
\* -1 when Black is.
C17_NormalizedScoreBounded ==
  [][Accepted =>
       LET value == ScoreOf(cacheArg').value
           normalized == evaluationValues'[cacheArg'.ply + 1]
       IN /\ ScoreIs("cp") => (-900 <= normalized /\ normalized <= 900)
          /\ (ScoreIs("mate") /\ value = 0) => normalized = 0
          /\ (ScoreIs("mate") /\ value > 0) =>
               normalized = IF WhiteToMove THEN 900 ELSE -900
          /\ (ScoreIs("mate") /\ value < 0) =>
               normalized = IF WhiteToMove THEN -900 ELSE 900]_vars

\* A mate against the side to move, Black, was normalized to +9.
C17_Witness ==
  /\ cacheArg # Undefined
  /\ ScoreOf(cacheArg) = [type |-> "mate", value |-> -1]
  /\ cacheArg.fen[2] = "b"
  /\ evaluationValues[cacheArg.ply + 1] = 900

\* C18: a centipawn score v normalizes to clamp(v / 100, -9, 9) when White is
\* to move and to clamp(-v / 100, -9, 9) when Black is (in hundredths: v or
\* -v, cut at -900 and 900); cp 120 with Black to move gives -1.2.
C18_CentipawnsFromWhitesSide ==
  [][(Accepted /\ ScoreIs("cp")) =>
       LET v == ScoreOf(cacheArg').value
           adjusted == IF WhiteToMove THEN v ELSE 0 - v
       IN evaluationValues'[cacheArg'.ply + 1] =
            IF adjusted > 900 THEN 900 ELSE IF adjusted < -900 THEN -900 ELSE adjusted]_vars

\* cp 120 with Black to move was normalized to -1.2.
C18_Witness ==
  /\ cacheArg # Undefined
  /\ ScoreOf(cacheArg) = [type |-> "cp", value |-> 120]
  /\ cacheArg.fen[2] = "b"
  /\ evaluationValues[cacheArg.ply + 1] = -120

\* C19: an accepted result whose score is absent (an error result among
\* them) or of an unknown kind is stored, and leaves evaluationValues as it
\* was; evaluationValues changes, at the result's ply only, when the accepted
\* result normalizes to a number.
C19_NullScoreKeepsValue ==
  [][cacheArg' # Undefined =>
       /\ (Accepted /\ ~ScoreIs("cp") /\ ~ScoreIs("mate")) =>
            /\ analysisResults'[cacheArg'.ply] = cacheArg'
            /\ evaluationValues' = evaluationValues
       /\ evaluationValues' # evaluationValues =>
            /\ Accepted
            /\ ScoreIs("cp") \/ ScoreIs("mate")
            /\ \A k \in DOMAIN evaluationValues :
                 k # cacheArg'.ply + 1 => evaluationValues'[k] = evaluationValues[k]]_vars

\* An error result was stored at a ply whose value, written before, stands.
C19_Witness ==
  /\ cacheArg # Undefined
  /\ "error" \in DOMAIN cacheArg
  /\ analysisResults[cacheArg.ply] = cacheArg
  /\ evaluationValues[cacheArg.ply + 1] # 0

\* A populated result: the bestmove field is there, and no error field.
Populated(r) ==
  DOMAIN r = {"fen", "ply", "bestmove", "ponder", "score", "pv", "rawInfo"}
\* An error result: the error is set; no bestmove, score or pv field.
Failed(r) ==
  /\ DOMAIN r = {"fen", "ply", "error"}
  /\ r.error # ""
\* The results the analyzer returned that a loop is about to take, those
\* recorded in a batch's results, and those in the store and its snapshot.
AllResults ==
  ({loops[L].val : L \in {K \in DOMAIN loops : loops[K].pc = "resolved"}}
     \cup UNION {{loops[L].results[p] : p \in Plies} : L \in DOMAIN loops}
     \cup {analysisResults[p] : p \in Plies}
     \cup {chessappAnalysisResults[p] : p \in Plies}
     \cup {cacheArg}) \ {Undefined}

\* C20: every result of the pipeline (returned by the analyzer, recorded in
\* a batch's results, or stored) is exactly one of a populated result (best
\* move present, no error field) and an error result (error set, no
\* bestmove, score or pv).
C20_ResultPopulatedOrError ==
  \A r \in AllResults : Populated(r) # Failed(r)

\* The store holds a populated result and an error result.
C20_Witness ==
  \E p, q \in Plies : Populated(analysisResults[p]) /\ Failed(analysisResults[q])

\* The ranks of the FEN drawn last, from rank 8 down to rank 1.
RanksDrawn == Split(drawArg[1], "/")
\* The squares described by the characters of rank before the i-th.
Before(rank, i) == Width(SubSeq(rank, 1, i - 1))

\* C21: for a FEN whose board field has 8 ranks of 8 squares each, the
\* matrix has exactly 8 rows of exactly 8 entries; row r is the r-th rank of
\* the FEN (row 0 is rank 8, row 7 is rank 1); every digit d of a rank
\* stands for d consecutive empty strings and every piece letter for one
\* entry equal to the letter, in file order.
C21_MatrixOfFen ==
  drawArg # Undefined =>
    /\ DOMAIN lastMatrix = 1 .. 8
    /\ Len(RanksDrawn) = 8
    /\ \A r \in 1 .. 8 :
         LET rank == RanksDrawn[r]
             row == lastMatrix[r]
         IN /\ DOMAIN row = 1 .. 8
            /\ \A i \in DOMAIN rank :
                 IF rank[i] \in DOMAIN DigitValue
                   THEN \A j \in 1 .. DigitValue[rank[i]] : row[Before(rank, i) + j] = ""
                   ELSE row[Before(rank, i) + 1] = rank[i]

\* The start position after a knight has left b8 was drawn: row 0 is rank 8
\* with the gap, row 7 is rank 1.
C21_Witness ==
  /\ drawArg # Undefined
  /\ drawArg = MixedFen
  /\ lastMatrix[1] = <<"r", "", "b", "q", "k", "b", "n", "r">>
  /\ lastMatrix[8] = <<"R", "N", "B", "Q", "K", "B", "N", "R">>

\* How many of the first m commands posted are go commands.
GoIndex(m) == Cardinality({j \in 1 .. m : posted[j][1] = "go"})
\* The bestmove lines among lines.
Bestmoves(lines) == {k \in DOMAIN lines : StartsWithWord(lines[k], "bestmove")}
\* The engine answers each go with one bestmove, in the order posted: the
\* go (first, second, ...) that the bestmove line at the head answers.
AnsweredGo == GoIndex(engineCursor) - Cardinality(Bestmoves(inbox)) + 1
\* The go (first, second, ...) sent for the analysis with listener id.
SentGo(id) ==
  GoIndex(CHOOSE m \in DOMAIN posted :
            posted[m][1] = "go" /\ postedBy[m] = [batch |-> id.loop, idx |-> id.ply])

\* C22: a populated result recorded for a batch element is built only from
\* a bestmove line the engine sent in answer to the go of that element: a
\* bestmove that comes late for an element that timed out is not recorded as
\* the result of the next element.
C22_ResultFromOwnSearch ==
  [][(/\ inbox # <<>>
      /\ todo # <<>>
      /\ ~IsProbe(Head(todo))
      /\ Head(todo) \in DOMAIN analyses
      /\ StartsWithWord(Head(inbox), "bestmove")
      /\ cacheArg' # Undefined)
       => AnsweredGo = SentGo(Head(todo))]_vars

\* The commands of the handshake, in the order posted.
HandshakeSent ==
  SelectSeq(posted, LAMBDA c : c \in {<<"uci">>, <<"ucinewgame">>, <<"isready">>})

\* C23: the handshake sends uci, ucinewgame, isready in this order;
\* ucinewgame and isready are sent only after a line starting with uciok was
\* received; the state becomes Ready (the promise fulfilled with true) only
\* after a line starting with readyok was received after isready was sent;
\* the only transitions are Uninitialized -> Handshaking -> Ready and
\* Uninitialized -> Handshaking -> Failed, and Ready and Failed are never left.
C23_HandshakeOrder ==
  /\ [](/\ IsPrefix(HandshakeSent, <<<<"uci">>, <<"ucinewgame">>, <<"isready">>>>)
        /\ Len(HandshakeSent) # 2
        /\ engineInitPromise = "true" => (readyokSeen /\ Len(HandshakeSent) = 3)
        /\ engineInitPromise = "null" => HandshakeSent = <<>>)
  /\ [][/\ Len(HandshakeSent') > 1 /\ Len(HandshakeSent) = 1
             => initPc = "after_uciok"
        /\ initPc' = "after_uciok" /\ initPc # "after_uciok"
             => inbox # <<>> /\ StartsWith(Head(inbox), "uciok") /\ Len(HandshakeSent) = 1
        /\ engineInitPromise' # engineInitPromise
             => <<engineInitPromise, engineInitPromise'>> \in
                  {<<"null", "pending">>, <<"pending", "true">>, <<"pending", "false">>}]_vars

\* The handshake is Ready, all three commands sent.
C23_Witness ==
  /\ engineInitPromise = "true"
  /\ Len(HandshakeSent) = 3
  /\ readyokSeen

\* The listeners of engine_analyse_fen calls in the listener list.
AnalyzerListeners ==
  {k \in DOMAIN engineListeners : ~IsProbe(engineListeners[k])}

\* C24: the analyzer's listener is deregistered when its bestmove line is
\* handled and when its timeout fires (a listener registered has its timer
\* pending and its analysis awaited); at most one analyzer listener is
\* registered; and while no engine_analyse_fen call is pending (no loop, or
\* a loop between two elements) none is registered.
C24_NoLeakedListener ==
  /\ Cardinality(AnalyzerListeners) <= 1
  /\ \A k \in AnalyzerListeners :
       LET id == engineListeners[k]
       IN /\ id \in searchTimers
          /\ id.loop \in DOMAIN loops
          /\ loops[id.loop].pc = "await_fen"
          /\ loops[id.loop].i = id.ply
  /\ (\A L \in DOMAIN loops : loops[L].pc # "await_fen") => AnalyzerListeners = {}

\* A loop stands between two elements, the first ended by its bestmove
\* line, the second by its timeout: no listener is registered.
C24_Witness ==
  /\ engineListeners = <<>>
  /\ \E L \in DOMAIN loops :
       /\ loops[L].pc = "rejected"
       /\ loops[L].i = 1
       /\ Populated(loops[L].results[0])

\* The timers of the waiters registered.
TimersOf(waiters) == {waiters[k].timer : k \in DOMAIN waiters}

\* C25: a waiter whose timer fires before a matching line came is removed
\* from the list and its caller gets the failure (the handshake awaiting it
\* throws and settles with false); a matching line that comes later does not
\* resolve it, and a waiter a line resolved is not failed by its timer
\* later: the waiters registered are exactly the ones not settled, each with
\* its own timer pending.
C25_WaiterSettlesOnce ==
  /\ [](/\ TimersOf(engineWaiters) = waiterTimers
        /\ Cardinality(waiterTimers) = Len(engineWaiters))
  /\ [][/\ (inbox = <<>> /\ inbox' = <<>> /\ waiterTimers' # waiterTimers
              /\ Len(engineWaiters') <= Len(engineWaiters)) =>
             \E k \in DOMAIN engineWaiters :
               /\ waiterTimers' = waiterTimers \ {engineWaiters[k].timer}
               /\ engineWaiters' = Except({k})
               /\ engineWaiters[k].awaiter = "init" => initPc' = "threw"
        /\ initPc = "threw" => initPc' \in {"threw", "done"}
        /\ (initPc = "threw" /\ initPc' = "done") => engineInitPromise' = "false"
        /\ initPc = "after_uciok" => initPc' \in {"after_uciok", "wait_readyok"}
        /\ initPc = "after_readyok" => initPc' \in {"after_readyok", "done"}
        /\ (initPc = "after_readyok" /\ initPc' = "done") => engineInitPromise' = "true"]_vars

\* The handshake's uciok waiter timed out and the handshake has failed; a
\* uciok line is dispatched now.
C25_Witness ==
  /\ engineInitPromise = "false"
  /\ HandshakeSent = <<<<"uci">>>>
  /\ inbox # <<>>
  /\ Head(inbox) = UciokLine

\* An engine_analyse_fen call is pending.
InFlight == \E L \in DOMAIN loops : loops[L].pc = "await_fen"

\* C26: a batch submitted while a position analysis is in flight changes
\* the pending slot only: no command is sent, the listener and the timer of
\* the analysis in flight stay registered, the store is unchanged, no loop
\* is started, and the loop in flight still awaits its analysis, which ends
\* with its own result or timeout.
C26_SubmitChangesSlotOnly ==
  [][(InFlight /\ submits' = submits + 1) =>
       /\ engineAnalysisPending' = batches'[submits']
       /\ pendingId' = submits'
       /\ UNCHANGED <<posted, postedBy, storeVars, analyserVars, initVars,
                      engineAnalysisRunning, dispatchVars>>
       /\ DOMAIN loops' = DOMAIN loops
       /\ \A L \in DOMAIN loops :
            loops'[L] = [loops[L] EXCEPT !.overtaken = loops'[L].overtaken]]_vars

\* A batch was submitted during the search of element 0 of the first batch,
\* which then ended with its own result, stored at ply 0.
C26_Witness ==
  /\ pendingId = 2
  /\ 1 \in DOMAIN loops
  /\ loops[1].overtaken = 0
  /\ loops[1].i = 1
  /\ Populated(loops[1].results[0])
  /\ analysisResults[0] = loops[1].results[0]

\* C27: the lines of a message are those of its text split at the newlines,
\* without the empty ones, and they are dispatched one at a time in that
\* order: a line goes to every listener registered when its turn comes, one
\* after the other, before any waiter is tested against it, and the next
\* line goes to no one before the waiters were tested against this one.
C27_LinesInOrder ==
  [][/\ (inbox = <<>> /\ inbox' # <<>>) =>
          /\ \E text \in Payloads(DirectLines) : inbox' = SelectSeq(Split(text, "\n"),
                                                       LAMBDA line : Len(line) > 0)
          /\ todo' = engineListeners
          /\ UNCHANGED <<engineWaiters, analyses>>
     /\ inbox # <<>> =>
          /\ inbox' \in {inbox, Tail(inbox)}
          /\ (todo # <<>> /\ IsProbe(Head(todo))) =>
               analyses'[Head(todo)].seen = Head(inbox)
          /\ Len(todo) > 1 =>
               /\ inbox' = inbox
               /\ todo' = Tail(todo)
               /\ UNCHANGED <<engineWaiters, initPc>>
          /\ Len(todo) <= 1 =>
               /\ inbox' = Tail(inbox)
               /\ engineWaiters' = Except(WaitersResolved(engineWaiters, Head(inbox)))
               /\ todo' = IF inbox' # <<>> THEN engineListeners' ELSE <<>>
               /\ \A id \in Probes : id \notin {todo[k] : k \in DOMAIN todo} =>
                    analyses'[id] = analyses[id]]_vars

\* The second line of a message is at its first listener, which has seen
\* the first line; the handshake's waiter was resolved by the first line.
C27_Witness ==
  /\ delivered = 1
  /\ Len(inbox) = 1
  /\ Len(todo) = 2
  /\ Head(inbox) # UciokLine
  /\ IsProbe(Head(todo))
  /\ analyses[Head(todo)].seen = UciokLine
  /\ initPc = "after_uciok"

\* The analyzer's listener is called with a bestmove line next.
BestmoveHandled ==
  /\ inbox # <<>>
  /\ todo # <<>>
  /\ ~IsProbe(Head(todo))
  /\ Head(todo) \in DOMAIN analyses
  /\ StartsWithWord(Head(inbox), "bestmove")
\* The tokens of line after the first token word.
After(line, word) ==
  LET k == CHOOSE j \in DOMAIN line :
             line[j] = word /\ \A m \in 1 .. j - 1 : line[m] # word
  IN SubSeq(line, k + 1, Len(line))

\* C28: when a bestmove line resolves an analysis, the result's best move
\* (and ponder move, if the line has one) are those of the line, and its
\* score and principal variation those of the last info line the analysis
\* received before; with no info line the score is absent and the principal
\* variation empty.  The result is handed to the cache and returned to the
\* caller.
C28_ResultFromBestmoveAndLastInfo ==
  [][BestmoveHandled =>
       LET line == Head(inbox)
           infoLines == analyses[Head(todo)].infoLines
           last == infoLines[Len(infoLines)]
           result == cacheArg'
       IN /\ result # Undefined
          /\ result.bestmove = line[2]
          /\ result.ponder = IF Len(line) >= 4 /\ line[3] = "ponder"
                               THEN <<line[4]>> ELSE <<>>
          /\ result.fen = analyses[Head(todo)].fen
          /\ result.ply = analyses[Head(todo)].plyIndex
          /\ IF infoLines = <<>>
               THEN result.score = Undefined /\ result.pv = <<>>
               ELSE /\ result.score = [type |-> After(last, "score")[1],
                                       value |-> IntTokens[After(last, "score")[2]]]
                    /\ result.pv = After(last, "pv")
          /\ loops'[Head(todo).loop].pc = "resolved"
          /\ loops'[Head(todo).loop].val = result]_vars

\* A search whose last info line was the mate line was resolved by the
\* bestmove line without a ponder move.
C28_Witness ==
  /\ 0 \in DOMAIN loops
  /\ loops[0].pc = "resolved"
  /\ loops[0].val.bestmove = "d2d4"
  /\ loops[0].val.ponder = <<>>
  /\ loops[0].val.score = [type |-> "mate", value |-> 3]
  /\ loops[0].val.pv = <<"d2d4">>
  /\ loops[0].val.rawInfo = MateInfoLine


\* ------------------------------------------------------------------- C29
\* The engine answered the handshake and then nothing: every search of the
\* batch timed out, the batch is over, and its go commands are unanswered.
C29_Witness ==
  /\ engineInitPromise = "true"
  /\ positions # <<>>
  /\ ~engineAnalysisRunning
  /\ DOMAIN loops = {}
  /\ Cardinality(GoInFlight) >= Len(positions)
  /\ \A i \in 0 .. Len(positions) - 1 : Failed(analysisResults[i])

\* C29: with timers that fire, and whether or not the engine ever sends
\* another line, every batch the queue starts terminates: a pending handshake
\* settles, a position analysis in flight settles, engineAnalysisRunning
\* returns to false, and a batch in the pending slot is taken up.
C29_BatchTerminates ==
  /\ (engineInitPromise = "pending") ~> Settled
  /\ InFlight ~> ~InFlight
  /\ engineAnalysisRunning ~> ~engineAnalysisRunning
  /\ (engineAnalysisPending # <<>>) ~> (engineAnalysisPending = <<>>)

====
